---- MODULE Spec2Model ----
(***************************************************************************)
(* SimulatedRobot (Src/Libs/SimulatedNao/SimulatedRobot.cpp): the          *)
(* world-state synchronizer between the simulator's raw frame and the      *)
(* team-relative field frame.                                              *)
(*                                                                         *)
(* Units.  The simulator stores positions in metres; the synchronizer      *)
(* works in millimetres.  Simulator coordinates are integers (metres), so  *)
(* that the scaling by 1000 (getPosition3D) and by 0.001 (moveBall) is     *)
(* exact; float rounding is not modelled.  Angles are integer degrees,     *)
(* multiples of 90, so that rotations are exact.  The clock is in          *)
(* milliseconds.  A velocity component is an exact rational <<num, den>>   *)
(* in lowest terms; den = 0 marks the result of a division by zero.        *)
(***************************************************************************)
EXTENDS Integers, Sequences, FiniteSets, TLC

VARIABLES
  is2D,          \* RoboCupCtrl::controller->is2D
  simStepLength, \* RoboCupCtrl::controller->simStepLength (ms)
  clock,         \* the value Time::getCurrentSystemTime() returns now
  ball,          \* static SimulatedRobot::ball (process-wide), NoBall = nullptr
  ballObjs,      \* the ball objects that exist in the scene
  ballPos,       \* simulator: position of every ball body (metres)
  ballVel,       \* simulator: velocity of every ball body
  scene,         \* simulator: children of "RoboCup.robots" and "RoboCup.extras"
  rawPose,       \* simulator: pose of every robot body (metres, degrees)
  sync,          \* the SimulatedRobot instances, by owning robot
  ret,           \* what the last operation returned / wrote to its out-parameter
  obs            \* observer (history) state used to state the properties

vars == <<is2D, simStepLength, clock, ball, ballObjs, ballPos, ballVel, scene,
          rawPose, sync, ret, obs>>

(***************************************************************************)
(* Bounds of the model                                                     *)
(***************************************************************************)
MaxTime == 5
MaxShortTime == 2
MaxCoord == 1
MaxSpeed == 2

(***************************************************************************)
(* Program constants                                                       *)
(***************************************************************************)
robotsPerTeam == 2
MmPerMetre == 1000
MsPerSecond == 1000
BallHeight2D == 50
pi == 180

NoBall == "nullptr"
Balls == {"ballA", "ballB"}

Zero2 == <<0, 0>>
Zero3 == <<0, 0, 0>>

(***************************************************************************)
(* Exact arithmetic helpers                                                *)
(***************************************************************************)
Abs(n) == IF n < 0 THEN -n ELSE n

RECURSIVE GCD(_, _)
GCD(a, b) == IF b = 0 THEN a ELSE GCD(b, a % b)

\* n / d as a rational in lowest terms; d = 0 yields the marker <<n, 0>>
Quot(n, d) ==
  IF d = 0 THEN <<n, 0>>
  ELSE LET g == GCD(Abs(n), Abs(d))
           s == IF d < 0 THEN -1 ELSE 1
       IN <<(s * n) \div g, (s * d) \div g>>

RZero == <<0, 1>>
RZero3 == <<RZero, RZero, RZero>>

\* Angle::normalize: into [-pi, pi)
Normalize(a) == ((a + pi) % (2 * pi)) - pi

\* Eigen extension Vector2f::rotate(angle), for multiples of 90 degrees
Rotate(v, a) ==
  LET n == Normalize(a)
  IN CASE n = 0 -> v
       [] n = 90 -> <<-v[2], v[1]>>
       [] n = -180 -> <<-v[1], -v[2]>>
       [] n = -90 -> <<v[2], -v[1]>>

\* Pose2f::operator+ : p + q = (p.rotation + q.rotation, p * q.translation)
PoseAdd(p, q) ==
  LET r == Rotate(q.translation, p.rotation)
  IN [translation |-> <<p.translation[1] + r[1], p.translation[2] + r[2]>>,
      rotation |-> Normalize(p.rotation + q.rotation)]

\* Pose2f(pi)
PosePi == [translation |-> Zero2, rotation |-> pi]

(***************************************************************************)
(* Scene objects.  A robot object is <<group, number>>, standing for the   *)
(* body named "RoboCup.<group>.robot<number>".                             *)
(***************************************************************************)
MaxNumber == 2 * robotsPerTeam
Numbers == 1..MaxNumber
Groups == {"robots", "extras"}
Objects == Groups \X Numbers

\* getNumber: the integer after "robot" in the last component of the full name
getNumber(obj) == obj[2]

isFirstTeam(obj) == getNumber(obj) <= robotsPerTeam

\* mutant: the last number of the first team is taken for the second team
RosterClassOffByOne(number, robotNumber) ==
  IF number # robotNumber
    THEN (IF number < robotsPerTeam THEN "first" ELSE "second")
    ELSE "none"

\* The test of the constructor's loops: which list a child with this number joins
RosterClass(number, robotNumber) ==
  IF number # robotNumber
    THEN (IF number <= robotsPerTeam THEN "first" ELSE "second")
    ELSE "none"

\* One loop of the constructor: the children of a group, in scene order
RECURSIVE ParseGroup(_, _, _)
ParseGroup(children, robotNumber, lists) ==
  IF children = <<>> THEN lists
  ELSE LET robot == Head(children)
           class == RosterClass(getNumber(robot), robotNumber)
           next == CASE class = "first" ->
                          [lists EXCEPT !.first = Append(@, robot)]
                     [] class = "second" ->
                          [lists EXCEPT !.second = Append(@, robot)]
                     [] OTHER -> lists
       IN ParseGroup(Tail(children), robotNumber, next)

\* SimulatedRobot::SimulatedRobot(robot) for scene sc
Construct(robot, sc) ==
  LET robotNumber == getNumber(robot)
      afterRobots == ParseGroup(sc.robots, robotNumber,
                                [first |-> <<>>, second |-> <<>>])
      afterExtras == ParseGroup(sc.extras, robotNumber, afterRobots)
  IN [robot |-> robot,
      firstTeam |-> isFirstTeam(robot),
      robotNumber |-> robotNumber,
      firstTeamRobots |-> afterExtras.first,
      secondTeamRobots |-> afterExtras.second,
      lastBallPosition |-> Zero3,
      lastBallTime |-> 0,
      hadVelocity |-> FALSE,
      curveVel |-> 0]

(***************************************************************************)
(* Simulator accessors                                                     *)
(***************************************************************************)
\* getPosition3D: metres to millimetres; a 2D body has no height
getPosition3D(b) ==
  <<ballPos[b][1] * MmPerMetre, ballPos[b][2] * MmPerMetre,
    (IF is2D THEN 0 ELSE ballPos[b][3]) * MmPerMetre>>

\* getPosition: the horizontal position in millimetres
getPosition(b) == <<ballPos[b][1] * MmPerMetre, ballPos[b][2] * MmPerMetre>>

\* getPose2f: the raw 2D pose of a robot body, in millimetres
getPose2f(obj) ==
  [translation |-> <<rawPose[obj].translation[1] * MmPerMetre,
                     rawPose[obj].translation[2] * MmPerMetre>>,
   rotation |-> rawPose[obj].rotation]

\* the return value of getPose2f
isUpright(obj) == rawPose[obj].upright

(***************************************************************************)
(* getWorldState: the ball                                                 *)
(***************************************************************************)
\* head<2>() *= -1
NegateHead2(v) == <<-v[1], -v[2], v[3]>>

\* gtBall.position: the raw position in the frame of the owning team
BallPosition(b, firstTeam) ==
  LET raw == getPosition3D(b)
      flat == IF is2D THEN <<raw[1], raw[2], BallHeight2D>> ELSE raw
  IN IF firstTeam THEN NegateHead2(flat) ELSE flat

\* mutant: the test for an equal timestamp is missing
UsePreviousSampleAnyTime(lastBallTime, currentTime) == lastBallTime # 0

\* if(lastBallTime && lastBallTime != currentTime)
UsePreviousSample(lastBallTime, currentTime) ==
  lastBallTime # 0 /\ lastBallTime # currentTime

\* currentTime - lastBallTime: both are unsigned, and the clock is monotonic, so
\* the difference never wraps
Elapsed(currentTime, lastBallTime) == currentTime - lastBallTime

\* 1000.f * (position - lastBallPosition) / elapsed
FiniteDifference(position, lastBallPosition, elapsed) ==
  [k \in 1..3 |-> Quot(MsPerSecond * (position[k] - lastBallPosition[k]), elapsed)]

\* velocity.head<2>() != Vector2f::Zero()
HeadNonZero(velocity) == velocity[1] # RZero \/ velocity[2] # RZero

\* mutant: the angle is drawn whenever the ball moves
RollsCurveWhenMoving(hadVelocity, velocity) == HeadNonZero(velocity)

\* the condition under which Random::normal is called
RollsCurve(hadVelocity, velocity) == ~hadVelocity /\ HeadNonZero(velocity)

\* mutant: the angle is not reset when the ball has stopped
NextCurveVelNoReset(curveVel, hadVelocity, velocity, draw) ==
  IF RollsCurve(hadVelocity, velocity) THEN draw ELSE curveVel

\* curveVel after the two ifs of the 3D branch
NextCurveVel(curveVel, hadVelocity, velocity, draw) ==
  LET rolled == IF RollsCurve(hadVelocity, velocity) THEN draw ELSE curveVel
  IN IF ~HeadNonZero(velocity) THEN 0 ELSE rolled

\* velo with its horizontal part rotated by curveVel
CurvedVelocity(velo, curveVel) ==
  LET direct == Rotate(<<velo[1], velo[2]>>, curveVel)
  IN <<direct[1], direct[2], velo[3]>>

\* hadVelocity = gtBall.velocity.head<2>() != Vector2f::Zero()
HadVelocity(velocity) == HeadNonZero(velocity)

\* mutant: the rolling state is shared by all instances (static members)
StoreSampleShared(all, i, s) ==
  [j \in DOMAIN all |->
     [all[j] EXCEPT !.lastBallPosition = s.lastBallPosition,
                    !.lastBallTime = s.lastBallTime,
                    !.hadVelocity = s.hadVelocity,
                    !.curveVel = s.curveVel]]

\* the hidden rolling state of instance i after it has taken sample s
StoreSample(all, i, s) ==
  [all EXCEPT ![i].lastBallPosition = s.lastBallPosition,
              ![i].lastBallTime = s.lastBallTime,
              ![i].hadVelocity = s.hadVelocity,
              ![i].curveVel = s.curveVel]

(***************************************************************************)
(* getWorldState: the robots                                               *)
(***************************************************************************)
\* mutant: the pose is rotated for a synchronizer of either team
ReportedPoseAlwaysRotated(pose, firstTeam) == PoseAdd(PosePi, pose)

\* the pose a synchronizer of the given team reports for a raw pose
ReportedPose(pose, firstTeam) ==
  IF firstTeam THEN PoseAdd(PosePi, pose) ELSE pose

\* getRobotPose: the owning robot's pose in the frame of its team
getRobotPose(s) == ReportedPose(getPose2f(s.robot), s.firstTeam)

\* one GroundTruthPlayer of the first loop
FirstTeamPlayer(obj, firstTeam) ==
  [number |-> getNumber(obj),
   upright |-> isUpright(obj),
   pose |-> ReportedPose(getPose2f(obj), firstTeam)]

\* one GroundTruthPlayer of the second loop
SecondTeamPlayer(obj, firstTeam) ==
  [number |-> getNumber(obj) - robotsPerTeam,
   upright |-> isUpright(obj),
   pose |-> ReportedPose(getPose2f(obj), firstTeam)]

FirstTeamPlayers(s) ==
  [k \in 1..Len(s.firstTeamRobots) |->
     FirstTeamPlayer(s.firstTeamRobots[k], s.firstTeam)]

SecondTeamPlayers(s) ==
  [k \in 1..Len(s.secondTeamRobots) |->
     SecondTeamPlayer(s.secondTeamRobots[k], s.firstTeam)]

(***************************************************************************)
(* Input domains                                                           *)
(***************************************************************************)
Coords == -MaxCoord..MaxCoord

\* simulator positions (metres): along the x axis within MaxCoord of the origin,
\* or one metre to either side of the origin, or one metre above it
Positions ==
  {<<x, 0, 0>> : x \in Coords} \cup {<<0, 1, 0>>, <<0, -1, 0>>, <<0, 0, 1>>}

\* the origin and the positions one metre up and down the x axis
NearPositions == {<<x, 0, 0>> : x \in {-1, 0, 1}}

\* what a 2D body can hold: no height
Positions2D == {p \in Positions : p[3] = 0}

SimPositions == IF is2D THEN Positions2D ELSE Positions

\* the same positions in millimetres, as the callers of moveBall give them
InMm(p) == <<p[1] * MmPerMetre, p[2] * MmPerMetre, p[3] * MmPerMetre>>

\* horizontal simulator velocities: along an axis, of speed at most MaxSpeed
Velocities ==
  {v \in (-MaxSpeed..MaxSpeed) \X (-MaxSpeed..MaxSpeed) \X {0} : v[1] = 0 \/ v[2] = 0}

\* the values Random::normal may return
CurveDraws == {0, 90}

Instances == DOMAIN sync

(***************************************************************************)
(* Observer: what the properties need to remember about past calls         *)
(***************************************************************************)
\* whether a reported velocity has a nonzero horizontal part
MovesHorizontally(velocity) == ~(velocity[1] = RZero /\ velocity[2] = RZero)

\* the horizontal speeds [0, 0, 5, 5, 5, 0] of the scenario, as moving or not
ScenarioMoving == <<FALSE, FALSE, TRUE, TRUE, TRUE, FALSE>>

\* follows: whether the observer follows the scenario from the first sample on
NewObserver(follows) ==
  [sampled |-> FALSE,   \* the instance has taken a sample
   fresh |-> TRUE,      \* no sample taken since the ball registration last changed
   prevMoving |-> FALSE,\* the last sample's velocity had a nonzero horizontal part
   scen |-> IF follows THEN 0 ELSE -1,
                        \* samples taken so far, while they follow the scenario; else -1
   scenDraw |-> 0]      \* curveVel after step 3 of the scenario

ObserveSample(o, velocity, curveVel) ==
  LET k == o.scen + 1
      follows == o.scen >= 0 /\ k <= Len(ScenarioMoving)
                 /\ ScenarioMoving[k] = MovesHorizontally(velocity)
  IN [sampled |-> TRUE,
      fresh |-> FALSE,
      prevMoving |-> MovesHorizontally(velocity),
      scen |-> IF follows THEN k ELSE -1,
      scenDraw |-> IF follows /\ k = 3 THEN curveVel
                   ELSE IF follows THEN o.scenDraw ELSE 0]

(***************************************************************************)
(* Operations                                                              *)
(***************************************************************************)
\* void SimulatedRobot::setBall(SimRobot::Object* ball)
SetBall(b) ==
  /\ ball' = b
  /\ obs' = IF b = ball THEN obs
            ELSE [i \in DOMAIN obs |-> [obs[i] EXCEPT !.fresh = TRUE]]
  /\ ret' = [op |-> "setBall"]
  /\ UNCHANGED <<is2D, simStepLength, clock, ballObjs, ballPos, ballVel, scene,
                 rawPose, sync>>

\* void SimulatedRobot::getWorldState(GroundTruthWorldState& worldState) const
GetWorldState(i) ==
  \E draw \in CurveDraws :
    LET s == sync[i]
        hasBall == ball # NoBall
        position == BallPosition(ball, s.firstTeam)
        currentTime == clock
        usePrev == UsePreviousSample(s.lastBallTime, currentTime)
        elapsed == Elapsed(currentTime, s.lastBallTime)
        velocity == IF usePrev
                      THEN FiniteDifference(position, s.lastBallPosition, elapsed)
                      ELSE RZero3
        curves == usePrev /\ ~is2D
        curveVel == IF curves
                      THEN NextCurveVel(s.curveVel, s.hadVelocity, velocity, draw)
                      ELSE s.curveVel
        sample == [lastBallPosition |-> position,
                   lastBallTime |-> currentTime,
                   hadVelocity |-> HadVelocity(velocity),
                   curveVel |-> curveVel]
        firstTeamPlayers == FirstTeamPlayers(s)
        secondTeamPlayers == SecondTeamPlayers(s)
        worldState ==
          [balls |-> IF hasBall
                       THEN <<[position |-> position, velocity |-> velocity]>>
                       ELSE <<>>,
           ownPose |-> getRobotPose(s),
           ownTeamPlayers |-> IF s.firstTeam THEN firstTeamPlayers
                                             ELSE secondTeamPlayers,
           opponentTeamPlayers |-> IF s.firstTeam THEN secondTeamPlayers
                                                  ELSE firstTeamPlayers]
    IN /\ sync' = IF hasBall THEN StoreSample(sync, i, sample) ELSE sync
       /\ ballVel' = IF hasBall /\ curves
                       THEN [ballVel EXCEPT ![ball] = CurvedVelocity(@, curveVel)]
                       ELSE ballVel
       /\ obs' = IF hasBall
                   THEN [obs EXCEPT ![i] = ObserveSample(@, velocity, curveVel)]
                   ELSE obs
       /\ ret' = [op |-> "getWorldState",
                  inst |-> i,
                  time |-> currentTime,
                  before |-> s,
                  was |-> obs[i],
                  drew |-> hasBall /\ curves /\ RollsCurve(s.hadVelocity, velocity),
                  divisor |-> IF hasBall /\ usePrev THEN elapsed ELSE -1,
                  worldState |-> worldState]
       /\ UNCHANGED <<is2D, simStepLength, clock, ball, ballObjs, ballPos, scene,
                      rawPose>>

\* void SimulatedRobot::getOdometryData(const Pose2f& robotPose, OdometryData&) const
OdometryData(robotPose, firstTeam) ==
  IF firstTeam THEN PoseAdd(PosePi, robotPose) ELSE robotPose

GetOdometryData(i, robotPose) ==
  /\ ret' = [op |-> "getOdometryData",
             inst |-> i,
             robotPose |-> robotPose,
             odometryData |-> OdometryData(robotPose, sync[i].firstTeam)]
  /\ UNCHANGED <<is2D, simStepLength, clock, ball, ballObjs, ballPos, ballVel,
                 scene, rawPose, sync, obs>>

\* mutant: only the x axis is negated for the first team
PerTeamPositionMirrored(pos, firstTeam) ==
  IF firstTeam THEN <<-pos[1], pos[2], pos[3]>> ELSE pos

\* the position moveRobotPerTeam and moveBallPerTeam hand on
PerTeamPosition(pos, firstTeam) ==
  IF firstTeam THEN <<-pos[1], -pos[2], pos[3]>> ELSE pos

\* the rotation moveRobotPerTeam hands on
PerTeamRotation(rot, firstTeam) ==
  IF firstTeam THEN <<rot[1], rot[2], Normalize(rot[3] + pi)>> ELSE rot

\* pos * 0.001f: millimetres to metres (exact on whole metres)
ToMetres(pos) == [k \in 1..3 |-> pos[k] \div MmPerMetre]

\* moveRobot: place the owning robot's body
MovedRobot(pose, pos, rot, changeRotation) ==
  LET position == ToMetres(pos)
  IN [pose EXCEPT !.translation = <<position[1], position[2]>>,
                  !.rotation = IF changeRotation THEN rot[3] ELSE @]

\* void SimulatedRobot::moveRobotPerTeam(pos, rot, changeRotation, resetDynamics)
MoveRobotPerTeam(i, pos, rot, changeRotation, resetDynamics) ==
  LET s == sync[i]
  IN /\ rawPose' = [rawPose EXCEPT ![s.robot] =
                      MovedRobot(@, PerTeamPosition(pos, s.firstTeam),
                                 PerTeamRotation(rot, s.firstTeam), changeRotation)]
     /\ ret' = [op |-> "moveRobotPerTeam", inst |-> i, pos |-> pos, rot |-> rot,
                changeRotation |-> changeRotation]
     /\ UNCHANGED <<is2D, simStepLength, clock, ball, ballObjs, ballPos, ballVel,
                    scene, sync, obs>>

\* the simulator's ball bodies after moveBall(pos, resetDynamics)
MovedBallPos(pos) ==
  LET position == ToMetres(pos)
  IN IF ball = NoBall THEN ballPos
     ELSE [ballPos EXCEPT ![ball] =
             IF is2D THEN <<position[1], position[2], 0>> ELSE position]

MovedBallVel(resetDynamics) ==
  IF ball = NoBall \/ ~resetDynamics THEN ballVel
  ELSE [ballVel EXCEPT ![ball] = Zero3]

\* void SimulatedRobot::moveBall(const Vector3f& pos, bool resetDynamics)
MoveBall(pos, resetDynamics) ==
  /\ ballPos' = MovedBallPos(pos)
  /\ ballVel' = MovedBallVel(resetDynamics)
  /\ ret' = [op |-> "moveBall"]
  /\ UNCHANGED <<is2D, simStepLength, clock, ball, ballObjs, scene, rawPose,
                 sync, obs>>

\* void SimulatedRobot::moveBallPerTeam(const Vector3f& pos, bool resetDynamics)
MoveBallPerTeam(i, pos, resetDynamics) ==
  /\ ballPos' = MovedBallPos(PerTeamPosition(pos, sync[i].firstTeam))
  /\ ballVel' = MovedBallVel(resetDynamics)
  /\ ret' = [op |-> "moveBallPerTeam", inst |-> i, pos |-> pos]
  /\ UNCHANGED <<is2D, simStepLength, clock, ball, ballObjs, scene, rawPose,
                 sync, obs>>

\* bool SimulatedRobot::getAbsoluteBallPosition(Vector2f& ballPosition)
GetAbsoluteBallPosition ==
  /\ ret' = IF ball # NoBall
              THEN [op |-> "getAbsoluteBallPosition", result |-> TRUE,
                    ballPosition |-> getPosition(ball)]
              ELSE [op |-> "getAbsoluteBallPosition", result |-> FALSE]
  /\ UNCHANGED <<is2D, simStepLength, clock, ball, ballObjs, ballPos, ballVel,
                 scene, rawPose, sync, obs>>

\* Vector2f::norm(), exact for the axis-parallel vectors of the model
Norm(v) == CHOOSE n \in 0..(Abs(v[1]) + Abs(v[2])) : n * n = v[1] * v[1] + v[2] * v[2]

\* mutant: the new speed is not clamped at zero
FrictionVelocityUnclamped(ballVelocity, friction, stepLength) ==
  LET ballSpeed == Norm(ballVelocity)
      newBallSpeedMilli == ballSpeed * MsPerSecond + friction * stepLength
  IN IF ballSpeed = 0 THEN Zero2
     ELSE <<(ballVelocity[1] * newBallSpeedMilli) \div (ballSpeed * MsPerSecond),
            (ballVelocity[2] * newBallSpeedMilli) \div (ballSpeed * MsPerSecond)>>

\* the ball velocity applyBallFriction writes back
FrictionVelocity(ballVelocity, friction, stepLength) ==
  LET ballSpeed == Norm(ballVelocity)
      \* newBallSpeed = ballSpeed + friction * simStepLength / 1000, as a multiple
      \* of 1/1000
      newBallSpeedMilli == ballSpeed * MsPerSecond + friction * stepLength
  IN IF newBallSpeedMilli <= 0 THEN Zero2
     ELSE <<(ballVelocity[1] * newBallSpeedMilli) \div (ballSpeed * MsPerSecond),
            (ballVelocity[2] * newBallSpeedMilli) \div (ballSpeed * MsPerSecond)>>

\* void SimulatedRobot::applyBallFriction(float friction)
ApplyBallFriction(friction) ==
  /\ ballVel' = IF ~is2D \/ ball = NoBall THEN ballVel
                ELSE [ballVel EXCEPT ![ball] =
                        LET v == FrictionVelocity(<<@[1], @[2]>>, friction, simStepLength)
                        IN <<v[1], v[2], 0>>]
  /\ ret' = [op |-> "applyBallFriction",
             friction |-> friction,
             applied |-> is2D /\ ball # NoBall,
             before |-> IF ball # NoBall THEN ballVel[ball] ELSE Zero3]
  /\ UNCHANGED <<is2D, simStepLength, clock, ball, ballObjs, ballPos, scene,
                 rawPose, sync, obs>>

(***************************************************************************)
(* Environment: the clock and the simulator's physics                      *)
(***************************************************************************)
\* time passes: Time::getCurrentSystemTime() returns a later value
Tick(limit) ==
  /\ clock < limit
  /\ clock' = clock + 1
  /\ ret' = [op |-> "tick"]
  /\ UNCHANGED <<is2D, simStepLength, ball, ballObjs, ballPos, ballVel, scene,
                 rawPose, sync, obs>>

\* a physics step moves a ball body
BallMoves(b, p) ==
  /\ b \in ballObjs
  /\ p \in SimPositions
  /\ p # ballPos[b]
  /\ ballPos' = [ballPos EXCEPT ![b] = p]
  /\ ret' = [op |-> "physics"]
  /\ UNCHANGED <<is2D, simStepLength, clock, ball, ballObjs, ballVel, scene,
                 rawPose, sync, obs>>

\* a physics step (a kick, a collision) changes a ball body's velocity
BallKicked(b, v) ==
  /\ b \in ballObjs
  /\ v \in Velocities
  /\ v # ballVel[b]
  /\ ballVel' = [ballVel EXCEPT ![b] = v]
  /\ ret' = [op |-> "physics"]
  /\ UNCHANGED <<is2D, simStepLength, clock, ball, ballObjs, ballPos, scene,
                 rawPose, sync, obs>>

(***************************************************************************)
(* Initial states                                                          *)
(***************************************************************************)
SimStepLength == 20

\* friction accelerations applyBallFriction is called with: a deceleration
\* (non-positive), here whole speed units per simulation step
Frictions == {-(k * MsPerSecond) \div SimStepLength : k \in 0..(MaxSpeed + 1)}

\* the deceleration that takes one speed unit per simulation step
UnitFriction == -(MsPerSecond \div SimStepLength)

Robot(n) == <<"robots", n>>
Extra(n) == <<"extras", n>>

\* a scene with both teams in "robots" and a dummy in "extras"
FixedScene ==
  [robots |-> <<Robot(1), Robot(robotsPerTeam + 1), Robot(2)>>,
   extras |-> <<Extra(MaxNumber)>>]

Children(sc) ==
  {sc.robots[k] : k \in 1..Len(sc.robots)} \cup {sc.extras[k] : k \in 1..Len(sc.extras)}

StandingAt(x, y, rotation) ==
  [translation |-> <<x, y>>, rotation |-> rotation, upright |-> TRUE]

\* every robot body stands at (1 m, 0) and looks along the x axis
PosesAligned == [obj \in Objects |-> StandingAt(1, 0, 0)]

\* the robot bodies stand apart, turned by different angles, the dummies lying
PosesSpread ==
  [obj \in Objects |->
     [translation |-> <<getNumber(obj) - robotsPerTeam, 1>>,
      rotation |-> Normalize(90 * getNumber(obj)),
      upright |-> ~(obj[1] = "extras")]]

FixedPoses == PosesSpread

BallsAtOrigin == [b \in Balls |-> Zero3]

\* ballA at the origin, ballB lying one metre up the x axis
SpareBallAside == [BallsAtOrigin EXCEPT !["ballB"] = <<1, 0, 0>>]

\* the state after the scene is loaded and the synchronizers of owners are built
Loaded(twoD, start, objs, registered, positions, sc, poses, owners, follows) ==
  /\ is2D = twoD
  /\ simStepLength = SimStepLength
  /\ clock = start
  /\ ballObjs = objs
  /\ ball = registered
  /\ ballPos = positions
  /\ ballVel = [b \in Balls |-> Zero3]
  /\ scene = sc
  /\ rawPose = poses
  /\ sync = [r \in owners |-> Construct(r, sc)]
  /\ obs = [r \in owners |-> NewObserver(follows)]
  /\ ret = [op |-> "init"]

(***************************************************************************)
(* SpecCurve: one synchronizer of either team samples the registered ball  *)
(* of a 3D scene.                                                          *)
(***************************************************************************)
InitCurve ==
  \E owner \in {Robot(1), Robot(robotsPerTeam + 1)} :
    Loaded(FALSE, 0, {"ballA"}, "ballA", BallsAtOrigin, FixedScene, FixedPoses, {owner}, TRUE)

NextCurve ==
  \/ Tick(MaxTime)
  \/ \E b \in Balls, p \in Positions : BallMoves(b, p)
  \/ \E i \in Instances : GetWorldState(i)

SpecCurve == InitCurve /\ [][NextCurve]_vars

(***************************************************************************)
(* Properties of the curve angle (SpecCurve)                               *)
(***************************************************************************)
\* the last operation was a getWorldState call that found a ball registered
Sampled == ret.op = "getWorldState" /\ ret.worldState.balls # <<>>

ReportedVelocity == ret.worldState.balls[1].velocity
ReportedPosition == ret.worldState.balls[1].position

\* the call used the sample before it: that sample's timestamp is not the
\* "never" value 0 and differs from the clock value of the call
UsedPrevious == ret.before.lastBallTime # 0 /\ ret.time # ret.before.lastBallTime

\* the re-roll rule of C1: Random::normal is called exactly on zero -> nonzero,
\* and the angle is kept while the velocity stays nonzero
RerollRule ==
  Sampled =>
    /\ ret.drew <=> (~ret.was.prevMoving /\ MovesHorizontally(ReportedVelocity))
    /\ (ret.was.prevMoving /\ MovesHorizontally(ReportedVelocity))
         => sync[ret.inst].curveVel = ret.before.curveVel

\* steps 1 to 5 of the scenario [0, 0, 5, 5, 5, 0], for the first samples of a
\* synchronizer: angle 0, 0, then the draw of step 3 held
ScenarioSteps1To5 ==
  Sampled =>
    /\ obs[ret.inst].scen \in {1, 2} => sync[ret.inst].curveVel = 0
    /\ obs[ret.inst].scen \in {3, 4, 5}
         => sync[ret.inst].curveVel = obs[ret.inst].scenDraw

\* C1 as stated: curveVel is re-rolled exactly in the calls where the previous
\* estimated horizontal velocity was zero and the current one is not, it is kept
\* while both are nonzero, and for the speeds [0, 0, 5, 5, 5, 0] the angle is 0 at
\* steps 1-2, one draw over steps 3-5 and 0 at step 6, whatever the timestamps.
C1_AsStated ==
  /\ RerollRule
  /\ ScenarioSteps1To5
  /\ (Sampled /\ obs[ret.inst].scen = 6) => sync[ret.inst].curveVel = 0

\* C1 amended: the re-roll rule and steps 1-5 as stated; at step 6 the angle is 0
\* if that call is made at a later clock value than step 5, and is still the draw
\* of step 3 if it is made at the clock value of step 5.
C1_RerollOnStart ==
  /\ RerollRule
  /\ ScenarioSteps1To5
  /\ (Sampled /\ obs[ret.inst].scen = 6) =>
       sync[ret.inst].curveVel =
         (IF ret.time # ret.before.lastBallTime THEN 0 ELSE obs[ret.inst].scenDraw)

\* the whole scenario has run, with a nonzero draw, and step 6 came later than step 5
C1_Witness ==
  /\ Sampled
  /\ obs[ret.inst].scen = 6
  /\ obs[ret.inst].scenDraw # 0
  /\ ret.time # ret.before.lastBallTime

\* C2 as stated: at any timestamps, curveVel is zero after a call that follows a
\* moving sample and reports zero horizontal velocity, and so after every call that
\* reports zero horizontal velocity.
C2_AsStated ==
  (Sampled /\ ~MovesHorizontally(ReportedVelocity)) => sync[ret.inst].curveVel = 0

\* C2 amended: curveVel is zero after every call that uses the previous sample
\* (that sample's timestamp is nonzero and differs from the clock) and reports zero
\* horizontal velocity; a call that does not use the previous sample reports zero
\* velocity and leaves curveVel as it was.
C2_ResetWhenStopped ==
  Sampled =>
    /\ (UsedPrevious /\ ~MovesHorizontally(ReportedVelocity))
         => sync[ret.inst].curveVel = 0
    /\ ~UsedPrevious
         => /\ ReportedVelocity = RZero3
            /\ sync[ret.inst].curveVel = ret.before.curveVel

\* a moving ball with a nonzero curve angle is found stopped by a later call
C2_Witness ==
  /\ Sampled
  /\ UsedPrevious
  /\ ret.was.prevMoving
  /\ ret.before.curveVel # 0
  /\ ~MovesHorizontally(ReportedVelocity)

(***************************************************************************)
(* SpecVelocity: one synchronizer samples the balls of a scene of either   *)
(* backend while the registered ball changes.  Only ballA is moved by the   *)
(* physics; ballB is a spare ball that lies still.                         *)
(***************************************************************************)
InitVelocity ==
  \E twoD \in BOOLEAN :
    Loaded(twoD, 0, Balls, NoBall, SpareBallAside, FixedScene, FixedPoses, {Robot(1)}, FALSE)

NextVelocity ==
  \/ Tick(MaxShortTime)
  \/ \E p \in Positions : BallMoves("ballA", p)
  \/ \E b \in Balls \cup {NoBall} : SetBall(b)
  \/ \E i \in Instances : GetWorldState(i)

SpecVelocity == InitVelocity /\ [][NextVelocity]_vars

\* 1000 * (currentPos - lastPos) / elapsedMillis
ExpectedVelocity(currentPos, lastPos, elapsedMillis) ==
  [k \in 1..3 |-> Quot(1000 * (currentPos[k] - lastPos[k]), elapsedMillis)]

C4_AsStated ==
  (Sampled /\ ret.was.fresh) => ReportedVelocity = RZero3

\* C5: a call at the clock value of the synchronizer's previous sample reports
\* zero velocity, and divides by no zero elapsed time.
C5_ZeroAtSameTimestamp ==
  (Sampled /\ ret.was.sampled /\ ret.time = ret.before.lastBallTime) =>
    /\ ReportedVelocity = RZero3
    /\ ret.divisor # 0

\* two samples at one nonzero timestamp, the ball at another position in the second
C5_Witness ==
  /\ Sampled
  /\ ret.was.sampled
  /\ ~ret.was.fresh
  /\ ret.time = ret.before.lastBallTime
  /\ ret.time # 0
  /\ ReportedPosition # ret.before.lastBallPosition

(***************************************************************************)
(* Spec: two synchronizers, one of each team, share the process-wide ball  *)
(* of a scene of either backend; every ball operation may be called.       *)
(***************************************************************************)
\* poses getOdometryData is called with
OdometryPoses ==
  {[translation |-> <<x * MmPerMetre, 0>>, rotation |-> r] :
     x \in {1}, r \in {0, 90}}

Init ==
  \E twoD \in BOOLEAN :
    Loaded(twoD, 1, {"ballA"}, NoBall, BallsAtOrigin, FixedScene, FixedPoses,
           {Robot(1), Robot(robotsPerTeam + 1)}, FALSE)

Next ==
  \/ Tick(MaxShortTime)
  \/ \E p \in NearPositions : BallMoves("ballA", p)
  \/ \E b \in ballObjs \cup {NoBall} : SetBall(b)
  \/ \E i \in Instances : GetWorldState(i)
  \/ \E i \in Instances, robotPose \in OdometryPoses : GetOdometryData(i, robotPose)
  \/ \E p \in NearPositions, resetDynamics \in BOOLEAN : MoveBall(InMm(p), resetDynamics)
  \/ \E i \in Instances, p \in NearPositions, resetDynamics \in BOOLEAN :
       MoveBallPerTeam(i, InMm(p), resetDynamics)
  \/ GetAbsoluteBallPosition
  \/ ApplyBallFriction(UnitFriction)

Spec == Init /\ [][Next]_vars

HiddenState(s) ==
  <<s.lastBallPosition, s.lastBallTime, s.hadVelocity, s.curveVel>>

\* C10: in any interleaving of the operations of the synchronizers that share the
\* ball, a step changes the hidden rolling state (lastBallPosition, lastBallTime,
\* hadVelocity, curveVel) of an instance only if it is that instance's own
\* getWorldState call.
C10_HiddenStateOwned ==
  [][\A i \in Instances :
       HiddenState(sync'[i]) # HiddenState(sync[i])
         => (ret'.op = "getWorldState" /\ ret'.inst = i)]_vars

\* an instance has sampled the moving ball at another time than the other instance
C10_Witness ==
  /\ Sampled
  /\ HiddenState(sync[ret.inst]) # HiddenState(ret.before)
  /\ \E j \in Instances :
       /\ j # ret.inst
       /\ obs[j].sampled
       /\ sync[j].lastBallTime # sync[ret.inst].lastBallTime
       /\ MovesHorizontally(ReportedVelocity)

(***************************************************************************)
(* SpecFriction: the ball of a 2D scene is kicked and slowed down.         *)
(***************************************************************************)
InitFriction ==
  Loaded(TRUE, 1, {"ballA"}, "ballA", BallsAtOrigin, FixedScene, FixedPoses,
         {Robot(1)}, FALSE)

NextFriction ==
  \/ \E v \in Velocities : BallKicked("ballA", v)
  \/ \E b \in ballObjs \cup {NoBall} : SetBall(b)
  \/ \E friction \in Frictions : ApplyBallFriction(friction)
  \/ \E p \in NearPositions, resetDynamics \in BOOLEAN : MoveBall(InMm(p), resetDynamics)
  \/ GetAbsoluteBallPosition

SpecFriction == InitFriction /\ [][NextFriction]_vars

\* the speed of an axis-parallel velocity
AxisSpeed(v) == Abs(v[1]) + Abs(v[2])

\* the deceleration of one step, D * dt, in thousandths of a speed unit
StepDecelerationMilli == -ret.friction * simStepLength

\* C7: applyBallFriction never reverses the ball: if the deceleration of the step
\* D * dt exceeds the speed S the velocity becomes the zero vector, otherwise it
\* keeps its direction with speed S - D * dt.
C7_FrictionStopsAtZero ==
  (ret.op = "applyBallFriction" /\ ret.applied) =>
    LET before == ret.before
        after == ballVel[ball]
        speedMilli == MsPerSecond * AxisSpeed(before)
        leftMilli == speedMilli - StepDecelerationMilli
    IN /\ StepDecelerationMilli > speedMilli => after = Zero3
       /\ StepDecelerationMilli <= speedMilli =>
            /\ MsPerSecond * AxisSpeed(after) = leftMilli
            /\ \A k \in 1..3 : after[k] * speedMilli = before[k] * leftMilli
       /\ after[1] * before[1] + after[2] * before[2] >= 0

\* a rolling ball met a deceleration larger than its speed
C7_Witness ==
  /\ ret.op = "applyBallFriction"
  /\ ret.applied
  /\ AxisSpeed(ret.before) > 0
  /\ StepDecelerationMilli > MsPerSecond * AxisSpeed(ret.before)

(***************************************************************************)
(* SpecRoster: a synchronizer is built for a robot of any scene whose      *)
(* robot numbers are unique.                                               *)
(***************************************************************************)
RECURSIVE Ascending(_)
Ascending(S) ==
  IF S = {} THEN <<>>
  ELSE LET m == CHOOSE x \in S : \A y \in S : x <= y
       IN <<m>> \o Ascending(S \ {m})

Reverse(q) == [k \in 1..Len(q) |-> q[Len(q) + 1 - k]]

GroupOf(group, S, descending) ==
  LET asc == Ascending(S)
      q == IF descending THEN Reverse(asc) ELSE asc
  IN [k \in 1..Len(q) |-> <<group, q[k]>>]

\* every way to put each number into "robots", into "extras" or nowhere, the
\* children of a group in ascending or in descending order
Scenes ==
  {[robots |-> GroupOf("robots", {n \in Numbers : place[n] = "robots"}, desc),
    extras |-> GroupOf("extras", {n \in Numbers : place[n] = "extras"}, desc)] :
     place \in [Numbers -> {"robots", "extras", "absent"}], desc \in BOOLEAN}

InitRoster ==
  \E sc \in Scenes, twoD \in BOOLEAN :
    \E owner \in Children(sc) :
      Loaded(twoD, 1, {"ballA"}, NoBall, BallsAtOrigin, sc, PosesSpread, {owner}, FALSE)

NextRoster ==
  \/ \E b \in ballObjs \cup {NoBall} : SetBall(b)
  \/ \E i \in Instances : GetWorldState(i)

SpecRoster == InitRoster /\ [][NextRoster]_vars

Occurrences(q, x) == Cardinality({k \in 1..Len(q) : q[k] = x})

\* C8: every child of "robots" and "extras" other than the owning robot is in
\* exactly one roster list, in firstTeamRobots iff its number is at most
\* robotsPerTeam, and the owning robot is in neither.
C8_RosterPartition ==
  \A i \in Instances :
    /\ \A obj \in Children(scene) \ {sync[i].robot} :
         /\ Occurrences(sync[i].firstTeamRobots, obj)
              = (IF obj[2] <= robotsPerTeam THEN 1 ELSE 0)
         /\ Occurrences(sync[i].secondTeamRobots, obj)
              = (IF obj[2] <= robotsPerTeam THEN 0 ELSE 1)
    /\ Occurrences(sync[i].firstTeamRobots, sync[i].robot) = 0
    /\ Occurrences(sync[i].secondTeamRobots, sync[i].robot) = 0

\* a full scene: robots of both teams in both groups, the owner among them
C8_Witness ==
  /\ Cardinality(Children(scene)) = MaxNumber
  /\ Len(scene.extras) >= 2
  /\ \E i \in Instances :
       /\ sync[i].robot \in Children(scene)
       /\ Len(sync[i].firstTeamRobots) >= 1
       /\ Len(sync[i].secondTeamRobots) >= 2
       /\ \E k \in 1..Len(sync[i].firstTeamRobots) :
            sync[i].firstTeamRobots[k][2] = robotsPerTeam

(***************************************************************************)
(* SpecPose: a synchronizer of either team places its robot and the ball   *)
(* and reads the world state, in a scene of either backend.                *)
(***************************************************************************)
\* the rotations the placement commands are given: yaw in degrees
Yaws == {0, 90, 180}

\* the positions the placement commands are given (metres)
PlacePositions == {<<0, 0, 0>>, <<1, 0, 0>>, <<-1, 1, 1>>}

InitPose ==
  \E owner \in {Robot(1), Robot(robotsPerTeam + 1)}, twoD \in BOOLEAN,
     poses \in {PosesAligned, PosesSpread} :
    Loaded(twoD, 1, {"ballA"}, "ballA", BallsAtOrigin, FixedScene, poses, {owner}, FALSE)

NextPose ==
  \/ \E i \in Instances, p \in PlacePositions, yaw \in Yaws,
        changeRotation \in BOOLEAN, resetDynamics \in BOOLEAN :
       MoveRobotPerTeam(i, InMm(p), <<0, 0, yaw>>, changeRotation, resetDynamics)
  \/ \E i \in Instances, p \in PlacePositions, resetDynamics \in BOOLEAN :
       MoveBallPerTeam(i, InMm(p), resetDynamics)
  \/ \E i \in Instances : GetWorldState(i)
  \/ \E i \in Instances, robotPose \in OdometryPoses : GetOdometryData(i, robotPose)

SpecPose == InitPose /\ [][NextPose]_vars

SameAngle(a, b) == (a - b) % 360 = 0

\* C6: a pose (x, y, yaw) placed with moveRobotPerTeam, and a ball position placed
\* with moveBallPerTeam, is read back unchanged by the read path of the same
\* synchronizer (the yaw up to a multiple of 360 degrees), for either team.
C6_PlacementRoundTrip ==
  /\ ret.op = "moveRobotPerTeam" =>
       LET s == sync[ret.inst]
           back == ReportedPose(getPose2f(s.robot), s.firstTeam)
       IN /\ back.translation = <<ret.pos[1], ret.pos[2]>>
          /\ ret.changeRotation => SameAngle(back.rotation, ret.rot[3])
  /\ ret.op = "moveBallPerTeam" =>
       LET back == BallPosition(ball, sync[ret.inst].firstTeam)
       IN <<back[1], back[2]>> = <<ret.pos[1], ret.pos[2]>>

\* a first-team synchronizer has placed its robot off both axes, facing backwards
C6_Witness ==
  /\ ret.op = "moveRobotPerTeam"
  /\ sync[ret.inst].firstTeam
  /\ ret.changeRotation
  /\ ret.rot[3] = 180
  /\ ret.pos[2] # 0

\* the raw pose of a robot body in millimetres, rotated by 180 degrees or not
ExpectedPose(obj, rotated) ==
  LET x == 1000 * rawPose[obj].translation[1]
      y == 1000 * rawPose[obj].translation[2]
  IN IF rotated
       THEN [translation |-> <<-x, -y>>, rotation |-> rawPose[obj].rotation + 180]
       ELSE [translation |-> <<x, y>>, rotation |-> rawPose[obj].rotation]

SamePose(p, q) ==
  p.translation = q.translation /\ SameAngle(p.rotation, q.rotation)

\* C9: the snapshot holds, for every rostered robot, its raw pose rotated by 180
\* degrees if the synchronizer is of the first team and its raw pose otherwise.
C9_RosterPoses ==
  ret.op = "getWorldState" =>
    LET s == sync[ret.inst]
        ws == ret.worldState
        firsts == IF s.firstTeam THEN ws.ownTeamPlayers ELSE ws.opponentTeamPlayers
        seconds == IF s.firstTeam THEN ws.opponentTeamPlayers ELSE ws.ownTeamPlayers
    IN /\ Len(firsts) = Len(s.firstTeamRobots)
       /\ Len(seconds) = Len(s.secondTeamRobots)
       /\ \A k \in 1..Len(firsts) :
            SamePose(firsts[k].pose, ExpectedPose(s.firstTeamRobots[k], s.firstTeam))
       /\ \A k \in 1..Len(seconds) :
            SamePose(seconds[k].pose, ExpectedPose(s.secondTeamRobots[k], s.firstTeam))

\* a first-team synchronizer reports (-1000, 0, 180 degrees) for an opponent whose
\* raw pose is (1000, 0, 0)
C9_Witness ==
  /\ ret.op = "getWorldState"
  /\ sync[ret.inst].firstTeam
  /\ \E k \in 1..Len(ret.worldState.opponentTeamPlayers) :
       /\ rawPose[sync[ret.inst].secondTeamRobots[k]] = StandingAt(1, 0, 0)
       /\ ret.worldState.opponentTeamPlayers[k].pose.translation = <<-1000, 0>>
       /\ SameAngle(ret.worldState.opponentTeamPlayers[k].pose.rotation, 180)

====
